---- MODULE Spec2Model ----
(***************************************************************************)
(* FitQuest backend ("Run Website/server.js"): the progression and battle  *)
(* state machine of one Player Record.  Every request handler is one       *)
(* action: it loads the record, mutates it and saves it (or answers with   *)
(* an error before the save).  The file holds two textually concatenated   *)
(* variants of the server whose handlers are identical statement for       *)
(* statement; the model follows the first one (lines 58-731).              *)
(***************************************************************************)
EXTENDS Integers, Sequences, FiniteSets, TLC

(* ------------------------------ bounds --------------------------------- *)
MaxSaves == 4
MaxBattleSaves == 8
MaxFleeSaves == 9
MaxShopSaves == 5
MaxSiegeSaves == 11
MaxRequests == 2
MaxBattles == 2
MaxWorkouts == 2
MaxCups == 50
MaxDay == 2

(* ------------------------- request input sets -------------------------- *)
\* A workout name is the sequence of its characters, so that toLowerCase()
\* and includes() are computed and not assumed.
NameSquat == <<"S", "q", "u", "a", "t">>
NameRun == <<"r", "u", "n">>

\* An optional request field is a set with at most one element: {} is an
\* absent field (undefined), {w} a field sent as w.
AttackInputs ==
  { [reps |-> 20, weight |-> {0}],
    [reps |-> 450, weight |-> {}] }

\* The weakest attack: no reps, so that only strength counts.
FeebleInputs == { [reps |-> 0, weight |-> {0}] }

WorkoutInputs ==
  { [name |-> NameSquat, reps |-> 10, weight |-> 5, sets |-> {}],
    [name |-> NameRun, reps |-> 30, weight |-> 10, sets |-> {3}] }

\* The workouts of the workout runs: names that match none, one or two of
\* the substrings the server looks for, with loads worth 10, 15, 100 and 210
\* xp before the bonus.
NamePush == <<"P", "u", "s", "h", "-", "u", "p">>
NamePlank == <<"p", "l", "a", "n", "k">>
NameCrunch == <<"C", "r", "u", "n", "c", "h">>
NameSquatPush == <<"s", "q", "u", "a", "t", " ", "p", "u", "s", "h">>
NamePlankSquat == <<"p", "l", "a", "n", "k", " ", "s", "q", "u", "a", "t">>

AwardNames ==
  {NameSquat, NameRun, NamePush, NamePlank, NameCrunch, NameSquatPush,
   NamePlankSquat}

AwardLoads ==
  { [reps |-> 0, weight |-> 0, sets |-> {}],
    [reps |-> 10, weight |-> 5, sets |-> {1}],
    [reps |-> 30, weight |-> 10, sets |-> {3}],
    [reps |-> 100, weight |-> 20, sets |-> {}] }

AwardInputs ==
  { [name |-> n, reps |-> l.reps, weight |-> l.weight, sets |-> l.sets] :
      n \in AwardNames, l \in AwardLoads }

CupsInputs == {25}

\* Smaller amounts of water, for the runs that read the day's cups.
SipInputs == {1, 3}

BuyAmounts == {1}

\* The amounts of the shop runs: nothing, one point, a five-point potion.
ShopAmounts == {0, 1, 5}

(* ------------------------------ catalog -------------------------------- *)
QUESTS ==
  << [title |-> "First Steps", type |-> "workout", requirement |-> 10,
      reward |-> [xp |-> 50, gold |-> 25]],
     [title |-> "Hydration Hero", type |-> "hydration", requirement |-> 4,
      reward |-> [xp |-> 30, gold |-> 15]],
     [title |-> "Push-up Power", type |-> "workout", requirement |-> 15,
      reward |-> [xp |-> 75, gold |-> 35]] >>

ENEMIES ==
  << [name |-> "The Lazy Dragon", hp |-> 50, damage |-> 8,
      reward |-> [xp |-> 100, gold |-> 50],
      description |-> "A sleepy dragon that hates exercise!"],
     [name |-> "Procrastination Golem", hp |-> 80, damage |-> 12,
      reward |-> [xp |-> 150, gold |-> 75],
      description |-> "A creature made of excuses and delays"],
     [name |-> "Motivation Slayer", hp |-> 120, damage |-> 15,
      reward |-> [xp |-> 200, gold |-> 100],
      description |-> "Drains your will to workout"],
     [name |-> "Couch Potato Titan", hp |-> 150, damage |-> 18,
      reward |-> [xp |-> 250, gold |-> 125],
      description |-> "A titan made of laziness and snacks"] >>

(* ------------------------------ helpers -------------------------------- *)
\* String.prototype.toLowerCase on the letters the inputs use.
LowerChar(c) ==
  CASE c = "S" -> "s"
    [] c = "P" -> "p"
    [] c = "C" -> "c"
    [] OTHER -> c

ToLowerCase(s) == [i \in 1..Len(s) |-> LowerChar(s[i])]

\* String.prototype.includes
Includes(s, sub) ==
  \E i \in 1..(Len(s) - Len(sub) + 1) : SubSeq(s, i, i + Len(sub) - 1) = sub

Squat == <<"s", "q", "u", "a", "t">>
Push == <<"p", "u", "s", "h">>
Plank == <<"p", "l", "a", "n", "k">>
Crunch == <<"c", "r", "u", "n", "c", "h">>

\* Math.floor(n / d) for d > 0
MathFloorDiv(n, d) == n \div d

\* Math.round(n / d) for d > 0: the nearest integer, halves rounded up
MathRound(n, d) == (2 * n + d) \div (2 * d)

\* variant: the sets of the request are ignored
SetsOrDefault_One(sets) == 1

\* `sets = 1` default of the destructuring / parameter
SetsOrDefault(sets) == IF sets = {} THEN 1 ELSE CHOOSE x \in sets : TRUE

\* variant: only an absent weight defaults to 1 (weight ?? 1)
WeightOr1_Nullish(weight) ==
  IF weight = {} THEN 1 ELSE CHOOSE x \in weight : TRUE

\* `weight || 1`
WeightOr1(weight) ==
  IF weight = {} \/ weight = {0} THEN 1 ELSE CHOOSE x \in weight : TRUE

\* variant: one level too many
LevelFor_High(x) == MathFloorDiv(x, 100) + 2

\* Math.floor(user.xp / 100) + 1
LevelFor(x) == MathFloorDiv(x, 100) + 1

calculateWorkoutXP(name, reps, weight, sets) ==
  LET baseXP == MathFloorDiv(reps * weight * sets, 10) + 10
      b1 == IF Includes(ToLowerCase(name), Squat) THEN 5 ELSE 0
      b2 == IF Includes(ToLowerCase(name), Push) THEN 8 ELSE b1
      b3 == IF Includes(ToLowerCase(name), Plank) THEN 3 ELSE b2
  IN  baseXP + b3

(* ------------------------------- state --------------------------------- *)
VARIABLES
  exists,        \* a User document for the identity is stored
  xp, level, gold,
  stats,         \* [strength, stamina, agility, health]
  waterIntake,   \* sequence of [date, cups]
  workouts,      \* sequence of [name, reps, weight, xp]
  activeQuests,  \* sequence of quest instances
  battles,       \* sequence of battle instances, in creation order
  today,         \* the calendar day new Date() yields
  last,          \* the last request: handler, inputs used, response, and
                 \* the record it loaded
  saves,         \* number of user.save() calls on the loaded record so far
  inflight       \* the requests that have loaded the record (findOne) and
                 \* not yet saved it, each with the document it loaded

vars == <<exists, xp, level, gold, stats, waterIntake, workouts,
          activeQuests, battles, today, last, saves, inflight>>

record == <<exists, xp, level, gold, stats, waterIntake, workouts,
            activeQuests, battles>>

\* The stored Player Record as one value.
Player ==
  [exists |-> exists, xp |-> xp, level |-> level, gold |-> gold, stats |-> stats,
   waterIntake |-> waterIntake, workouts |-> workouts,
   activeQuests |-> activeQuests, battles |-> battles]

NoArgs == [reps |-> 0, weight |-> {}, name |-> <<>>, sets |-> {},
           cups |-> 0, amount |-> 0]

NoResp == [damageDealt |-> 0, damageTaken |-> 0, idx |-> 0, enemy |-> 0,
           xpEarned |-> 0, leveledUp |-> FALSE, cups |-> 0,
           progress |-> <<>>, day |-> 0]

Response(op, status, args, resp) ==
  [op |-> op, status |-> status, args |-> args, resp |-> resp, pre |-> Player]

Init ==
  /\ exists = FALSE
  /\ xp = 0
  /\ level = 1
  /\ gold = 0
  /\ stats = [strength |-> 0, stamina |-> 0, agility |-> 0, health |-> 0]
  /\ waterIntake = <<>>
  /\ workouts = <<>>
  /\ activeQuests = <<>>
  /\ battles = <<>>
  /\ today = 1
  /\ saves = 0
  /\ inflight = {}
  /\ last = [op |-> "none", status |-> 0, args |-> NoArgs, resp |-> NoResp,
             pre |-> [exists |-> FALSE, xp |-> 0, level |-> 1, gold |-> 0,
                      stats |-> [strength |-> 0, stamina |-> 0,
                                 agility |-> 0, health |-> 0],
                      waterIntake |-> <<>>, workouts |-> <<>>,
                      activeQuests |-> <<>>, battles |-> <<>>]]

(* ------------------------------ handlers ------------------------------- *)
\* await user.save(): the loaded and mutated record is stored.
Save == saves' = saves + 1 /\ UNCHANGED inflight

\* A handler that answers without saving: the stored record is unchanged.
Answer(op, status, args, resp) ==
  /\ last' = Response(op, status, args, resp)
  /\ UNCHANGED <<record, today, saves, inflight>>

\* variant: a second registration of the email replaces the stored record
Register_Reset ==
  /\ exists' = TRUE
  /\ xp' = 0
  /\ level' = 1
  /\ gold' = 100
  /\ stats' = [strength |-> 5, stamina |-> 5, agility |-> 5, health |-> 100]
  /\ waterIntake' = <<>>
  /\ workouts' = <<>>
  /\ activeQuests' = <<>>
  /\ battles' = <<>>
  /\ last' = Response("register", 200, NoArgs, NoResp)
  /\ UNCHANGED <<today, saves, inflight>>

\* POST /register: the new document is stored; a second registration of
\* the same email violates the unique index (err.code 11000) and the
\* stored record stays as it is.
Register ==
  IF exists
    THEN UNCHANGED vars
    ELSE /\ exists' = TRUE
         /\ xp' = 0
         /\ level' = 1
         /\ gold' = 100
         /\ stats' = [strength |-> 5, stamina |-> 5, agility |-> 5,
                      health |-> 100]
         /\ waterIntake' = <<>>
         /\ workouts' = <<>>
         /\ activeQuests' = <<>>
         /\ battles' = <<>>
         /\ last' = Response("register", 200, NoArgs, NoResp)
         /\ UNCHANGED <<today, saves, inflight>>

\* variant: no entry is ever found, every log-water appends
FindWater_None(w, day) == 0

\* user.waterIntake.find(entry => entry.date === today): index of the first
\* entry of the day, 0 when there is none.
FindWater(w, day) ==
  LET hits == {i \in 1..Len(w) : w[i].date = day}
  IN  IF hits = {} THEN 0 ELSE CHOOSE i \in hits : \A j \in hits : i <= j

TotalCups(w) ==
  LET RECURSIVE Sum(_)
      Sum(i) == IF i = 0 THEN 0 ELSE w[i].cups + Sum(i - 1)
  IN  Sum(Len(w))

\* variant: log-water recomputes the level from the new xp
LogWater_LevelUp(cups) ==
  LET args == [NoArgs EXCEPT !.cups = cups]
      i == FindWater(waterIntake, today)
      newXp == xp + MathRound(cups * 2, 1)
  IN  IF ~exists
        THEN Answer("log-water", 500, args, NoResp)
        ELSE /\ Save
             /\ TotalCups(waterIntake) + cups <= MaxCups
             /\ waterIntake' =
                  IF i # 0
                    THEN [waterIntake EXCEPT ![i].cups = @ + cups]
                    ELSE Append(waterIntake, [date |-> today, cups |-> cups])
             /\ xp' = newXp
             /\ level' = IF LevelFor(newXp) > level THEN LevelFor(newXp)
                                                    ELSE level
             /\ last' = Response("log-water", 200, args,
                                 [NoResp EXCEPT !.day = today])
             /\ UNCHANGED <<exists, gold, stats, workouts, activeQuests,
                            battles, today>>

\* POST /log-water
LogWater(cups) ==
  LET args == [NoArgs EXCEPT !.cups = cups]
      i == FindWater(waterIntake, today)
  IN  IF ~exists
        THEN Answer("log-water", 500, args, NoResp)
        ELSE /\ Save
             /\ TotalCups(waterIntake) + cups <= MaxCups
             /\ waterIntake' =
                  IF i # 0
                    THEN [waterIntake EXCEPT ![i].cups = @ + cups]
                    ELSE Append(waterIntake, [date |-> today, cups |-> cups])
             /\ xp' = xp + MathRound(cups * 2, 1)
             /\ last' = Response("log-water", 200, args,
                                 [NoResp EXCEPT !.day = today])
             /\ UNCHANGED <<exists, level, gold, stats, workouts,
                            activeQuests, battles, today>>

\* variant: the stamina names tested before the strength names
WorkoutGrowth_StaminaFirst(s, name) ==
  IF Includes(ToLowerCase(name), Plank) \/ Includes(ToLowerCase(name), Crunch)
    THEN [s EXCEPT !.stamina = @ + 2]
    ELSE IF Includes(ToLowerCase(name), Squat)
              \/ Includes(ToLowerCase(name), Push)
           THEN [s EXCEPT !.strength = @ + 2]
           ELSE [s EXCEPT !.agility = @ + 2]

\* Stat growth of a level-up in /log-workout, chosen by the workout name.
WorkoutGrowth(s, name) ==
  IF Includes(ToLowerCase(name), Squat) \/ Includes(ToLowerCase(name), Push)
    THEN [s EXCEPT !.strength = @ + 2]
    ELSE IF Includes(ToLowerCase(name), Plank)
              \/ Includes(ToLowerCase(name), Crunch)
           THEN [s EXCEPT !.stamina = @ + 2]
           ELSE [s EXCEPT !.agility = @ + 2]

\* POST /log-workout
LogWorkout(in) ==
  LET args == [NoArgs EXCEPT !.name = in.name, !.reps = in.reps,
                             !.weight = {in.weight}, !.sets = in.sets]
      sets == SetsOrDefault(in.sets)
      earned == calculateWorkoutXP(in.name, in.reps, in.weight, sets)
      newXp == xp + earned
      newLevel == LevelFor(newXp)
      leveledUp == newLevel > level
  IN  IF ~exists
        THEN Answer("log-workout", 500, args, NoResp)
        ELSE /\ Save
             /\ Len(workouts) < MaxWorkouts
             /\ workouts' = Append(workouts,
                  [name |-> in.name, reps |-> in.reps * sets,
                   weight |-> in.weight, xp |-> earned])
             /\ xp' = newXp
             /\ level' = IF leveledUp THEN newLevel ELSE level
             /\ stats' = IF leveledUp THEN WorkoutGrowth(stats, in.name)
                                      ELSE stats
             /\ last' = Response("log-workout", 200, args,
                  [NoResp EXCEPT !.xpEarned = earned,
                                 !.leveledUp = leveledUp])
             /\ UNCHANGED <<exists, gold, waterIntake, activeQuests,
                            battles, today>>

\* variant: only the workout quests of the Catalog are handed out
SeedQuests_WorkoutOnly ==
  LET picked == SelectSeq(QUESTS, LAMBDA q : q.type = "workout")
  IN  [i \in 1..Len(picked) |->
         [title |-> picked[i].title, type |-> picked[i].type,
          requirement |-> picked[i].requirement,
          reward |-> picked[i].reward, completed |-> FALSE]]

\* QUESTS.map(quest => ({...quest})) cast to questSchema
SeedQuests ==
  [i \in 1..Len(QUESTS) |->
     [title |-> QUESTS[i].title, type |-> QUESTS[i].type,
      requirement |-> QUESTS[i].requirement,
      reward |-> QUESTS[i].reward, completed |-> FALSE]]

\* GET /quests
GetQuests ==
  IF ~exists
    THEN Answer("quests", 500, NoArgs, NoResp)
    ELSE IF Len(activeQuests) # 0
      THEN Answer("quests", 200, NoArgs, NoResp)
      ELSE /\ Save
           /\ activeQuests' = SeedQuests
           /\ last' = Response("quests", 200, NoArgs, NoResp)
           /\ UNCHANGED <<exists, xp, level, gold, stats, waterIntake,
                          workouts, battles, today>>

\* GET /today-water: the cups of the first entry dated today, 0 without one.
TodayWater ==
  LET i == FindWater(waterIntake, today)
      cups == IF i # 0 THEN waterIntake[i].cups ELSE 0
  IN  IF ~exists
        THEN Answer("today-water", 500, NoArgs, NoResp)
        ELSE Answer("today-water", 200, NoArgs,
                    [NoResp EXCEPT !.cups = cups, !.day = today])

\* user.workouts.reduce(...): the stored reps of the workouts whose
\* lower-cased name includes 'squat', summed.
SquatReps(w) ==
  LET RECURSIVE Sum(_)
      Sum(i) ==
        IF i = 0 THEN 0
        ELSE Sum(i - 1)
               + (IF Includes(ToLowerCase(w[i].name), Squat)
                    THEN w[i].reps ELSE 0)
  IN  Sum(Len(w))

\* `completed` of one quest in /quests/progress.
QuestCompleted(quest) ==
  IF quest.type = "workout" THEN SquatReps(workouts)
  ELSE IF quest.type = "hydration"
    THEN LET i == FindWater(waterIntake, today)
         IN  IF i # 0 THEN waterIntake[i].cups ELSE 0
    ELSE 0

\* variant: the ratio returned without the cap
MinRatioOne_Uncapped(n, d) == [num |-> n, den |-> d]

\* Math.min(n / d, 1) for d > 0, as the fraction num / den.
MinRatioOne(n, d) ==
  IF n < d THEN [num |-> n, den |-> d] ELSE [num |-> 1, den |-> 1]

\* GET /quests/progress
QuestsProgress ==
  LET progress ==
        [i \in 1..Len(activeQuests) |->
           [title |-> activeQuests[i].title,
            completed |-> QuestCompleted(activeQuests[i]),
            progress |-> MinRatioOne(QuestCompleted(activeQuests[i]),
                                     activeQuests[i].requirement)]]
  IN  IF ~exists
        THEN Answer("progress", 500, NoArgs, NoResp)
        ELSE Answer("progress", 200, NoArgs,
                    [NoResp EXCEPT !.progress = progress, !.day = today])

\* variant: the health check written with < instead of <=
StartAllowed_Strict(health) == ~(health < 10)

\* `user.stats.health <= 10` does not hold: the battle may start.
StartAllowed(health) == ~(health <= 10)

\* variant: the player's HP of a new battle taken from the registration
\* default instead of the current health
NewBattle_FullHP(enemy, health) ==
  [enemyName |-> enemy.name, enemyHP |-> enemy.hp, enemyMaxHP |-> enemy.hp,
   enemyDamage |-> enemy.damage, enemyDescription |-> enemy.description,
   userHP |-> 100, userMaxHP |-> 100,
   completed |-> FALSE, victory |-> FALSE, fled |-> FALSE]

\* The battle document pushed by /battle/start (schema defaults included).
NewBattle(enemy, health) ==
  [enemyName |-> enemy.name, enemyHP |-> enemy.hp, enemyMaxHP |-> enemy.hp,
   enemyDamage |-> enemy.damage, enemyDescription |-> enemy.description,
   userHP |-> health, userMaxHP |-> health,
   completed |-> FALSE, victory |-> FALSE, fled |-> FALSE]

\* POST /battle/start; randomIndex is Math.floor(Math.random() * 4) + 1.
BattleStart(randomIndex) ==
  LET resp == [NoResp EXCEPT !.enemy = randomIndex, !.idx = Len(battles) + 1]
  IN  IF ~exists
        THEN Answer("start", 404, NoArgs, NoResp)
        ELSE IF ~StartAllowed(stats.health)
          THEN Answer("start", 400, NoArgs, NoResp)
          ELSE /\ Save
               /\ Len(battles) < MaxBattles
               /\ battles' = Append(battles,
                               NewBattle(ENEMIES[randomIndex], stats.health))
               /\ last' = Response("start", 200, NoArgs, resp)
               /\ UNCHANGED <<exists, xp, level, gold, stats, waterIntake,
                              workouts, activeQuests, today>>

\* variant: the oldest battle that is not completed
ActiveBattle_First(bs) ==
  LET open == {i \in 1..Len(bs) : ~bs[i].completed}
  IN  IF open = {} THEN 0 ELSE CHOOSE i \in open : \A j \in open : i <= j

\* variant: the last battle, completed or not (as /battle/flee picks it)
ActiveBattle_Last(bs) == Len(bs)

\* user.battles.filter(battle => !battle.completed).pop(): index of the last
\* battle that is not completed, 0 when there is none.
ActiveBattle(bs) ==
  LET open == {i \in 1..Len(bs) : ~bs[i].completed}
  IN  IF open = {} THEN 0 ELSE CHOOSE i \in open : \A j \in open : j <= i

\* variant: the player's strength is not added to the damage
BaseDamage_NoStrength(reps, weight, strength) ==
  MathFloorDiv(reps * WeightOr1(weight), 10)

\* Math.floor((reps * (weight || 1)) / 10) + user.stats.strength
BaseDamage(reps, weight, strength) ==
  MathFloorDiv(reps * WeightOr1(weight), 10) + strength

\* activeBattle.enemyDamage || 10
CounterDamage(b) == IF b.enemyDamage = 0 THEN 10 ELSE b.enemyDamage

\* variant: no clamping
ClampZero_None(x) == x

\* if (x < 0) x = 0
ClampZero(x) == IF x < 0 THEN 0 ELSE x

\* activeBattle.userHP = user.stats.health, assigned before health is clamped
MirrorUserHP(healthAfterHit) == healthAfterHit

\* ENEMIES.find(e => e.name === enemyName) || ENEMIES[0], then its reward
\* (or the default reward when it has none).
EnemyReward(enemyName) ==
  LET hits == {i \in 1..Len(ENEMIES) : ENEMIES[i].name = enemyName}
      enemy == IF hits = {} THEN ENEMIES[1]
               ELSE ENEMIES[CHOOSE i \in hits : \A j \in hits : i <= j]
  IN  IF "reward" \in DOMAIN enemy THEN enemy.reward
                                   ELSE [xp |-> 50, gold |-> 25]

\* variant: the growth table applied without the health bonus
VictoryGrowth_NoHealth(s) ==
  [strength |-> s.strength + 2, stamina |-> s.stamina + 2,
   agility |-> s.agility + 1, health |-> s.health]

\* Stat growth of a level-up after a victory.
VictoryGrowth(s) ==
  [strength |-> s.strength + 2, stamina |-> s.stamina + 2,
   agility |-> s.agility + 1, health |-> s.health + 20]

\* variant: the player's HP checked before the enemy's
Outcome_UserFirst(enemyHP, userHP) ==
  IF userHP <= 0 THEN "defeat"
  ELSE IF enemyHP <= 0 THEN "victory"
  ELSE "none"

\* The branch of the "check if battle ended" chain that is taken.
Outcome(enemyHP, userHP) ==
  IF enemyHP <= 0 THEN "victory"
  ELSE IF userHP <= 0 THEN "defeat"
  ELSE "none"

\* POST /battle/attack
BattleAttack(in) ==
  LET args == [NoArgs EXCEPT !.reps = in.reps, !.weight = in.weight]
      idx == ActiveBattle(battles)
      b == battles[idx]
      baseDamage == BaseDamage(in.reps, in.weight, stats.strength)
      enemyDamage == CounterDamage(b)
      hit == stats.health - enemyDamage
      userHP == MirrorUserHP(hit)
      health == ClampZero(hit)
      enemyHP == ClampZero(b.enemyHP - baseDamage)
      outcome == Outcome(enemyHP, userHP)
      reward == EnemyReward(b.enemyName)
      newXp == xp + reward.xp
      newLevel == LevelFor(newXp)
      hurt == [stats EXCEPT !.health = health]
      resp == [NoResp EXCEPT !.damageDealt = baseDamage,
                             !.damageTaken = enemyDamage, !.idx = idx]
  IN  IF ~exists
        THEN Answer("attack", 404, NoArgs, NoResp)
        ELSE IF idx = 0
          THEN Answer("attack", 400, NoArgs, NoResp)
          ELSE /\ Save
               /\ battles' = [battles EXCEPT ![idx] =
                     [b EXCEPT !.enemyHP = enemyHP, !.userHP = userHP,
                               !.completed = (outcome # "none"),
                               !.victory = (outcome = "victory")]]
               /\ IF outcome = "victory"
                    THEN /\ xp' = newXp
                         /\ gold' = gold + reward.gold
                         /\ level' = IF newLevel > level THEN newLevel
                                                         ELSE level
                         /\ stats' = IF newLevel > level
                                       THEN VictoryGrowth(hurt)
                                       ELSE hurt
                    ELSE /\ stats' = hurt
                         /\ UNCHANGED <<xp, gold, level>>
               /\ last' = Response("attack", 200, args, resp)
               /\ UNCHANGED <<exists, waterIntake, workouts, activeQuests,
                              today>>

\* variant: one price for every potion
HealthCost_Flat(amount) == 10

\* const cost = amount * 10: 10 gold per health point
HealthCost(amount) == amount * 10

\* variant: the purchase is never refused
CanAfford_Always(g, cost) == TRUE

\* `user.gold < cost` does not hold: the purchase goes through.
CanAfford(g, cost) == ~(g < cost)

\* POST /shop/buy-health
BuyHealth(amount) ==
  LET args == [NoArgs EXCEPT !.amount = amount]
      cost == HealthCost(amount)
  IN  IF ~exists
        THEN Answer("buy-health", 500, args, NoResp)
        ELSE IF ~CanAfford(gold, cost)
          THEN Answer("buy-health", 400, args, NoResp)
          ELSE /\ Save
               /\ gold' = gold - cost
               /\ stats' = [stats EXCEPT !.health = @ + amount]
               /\ last' = Response("buy-health", 200, args, NoResp)
               /\ UNCHANGED <<exists, xp, level, waterIntake, workouts,
                              activeQuests, battles, today>>

\* variant: the battle is marked fled but left open
MarkFled_Open(b) == [b EXCEPT !.fled = TRUE]

\* activeBattle.completed = true; activeBattle.fled = true
MarkFled(b) == [b EXCEPT !.completed = TRUE, !.fled = TRUE]

\* variant: the flee penalty taken before the battle is looked at
BattleFlee_PenaltyFirst ==
  LET n == Len(battles)
  IN  IF ~exists
        THEN Answer("flee", 500, NoArgs, NoResp)
        ELSE /\ stats' = [stats EXCEPT !.health = @ - 5]
             /\ IF n = 0 \/ battles[n].completed
                  THEN /\ last' = Response("flee", 400, NoArgs, NoResp)
                       /\ UNCHANGED <<battles, saves, inflight>>
                  ELSE /\ Save
                       /\ battles' = [battles EXCEPT ![n] = MarkFled(@)]
                       /\ last' = Response("flee", 200, NoArgs,
                                           [NoResp EXCEPT !.idx = n])
             /\ UNCHANGED <<exists, xp, level, gold, waterIntake, workouts,
                            activeQuests, today>>

\* POST /battle/flee
BattleFlee ==
  LET n == Len(battles)
  IN  IF ~exists
        THEN Answer("flee", 500, NoArgs, NoResp)
        ELSE IF n = 0 \/ battles[n].completed
          THEN Answer("flee", 400, NoArgs, NoResp)
          ELSE /\ Save
               /\ battles' = [battles EXCEPT ![n] = MarkFled(@)]
               /\ stats' = [stats EXCEPT !.health = @ - 5]
               /\ last' = Response("flee", 200, NoArgs,
                                   [NoResp EXCEPT !.idx = n])
               /\ UNCHANGED <<exists, xp, level, gold, waterIntake, workouts,
                              activeQuests, today>>

\* POST /shop/buy-health as the event loop runs it, first half: request r
\* awaits User.findOne and holds the document it got.  Nothing keeps a
\* second request of the same player from doing the same before r saves.
BuyHealthLoad(r, amount) ==
  /\ \A q \in inflight : q.id # r
  /\ IF ~exists
       THEN Answer("buy-health", 500, [NoArgs EXCEPT !.amount = amount],
                   NoResp)
       ELSE /\ inflight' = inflight \cup
                             {[id |-> r, amount |-> amount, doc |-> Player]}
            /\ UNCHANGED <<record, today, last, saves>>

\* Second half: the handler runs on the document request r loaded and
\* user.save() stores the paths whose value it changed, gold and
\* stats.health, with that document's values (an amount of 0 changes
\* neither, and nothing is written).
BuyHealthSave(r) ==
  \E q \in inflight :
    /\ q.id = r
    /\ inflight' = inflight \ {q}
    /\ LET args == [NoArgs EXCEPT !.amount = q.amount]
           cost == HealthCost(q.amount)
       IN  IF ~CanAfford(q.doc.gold, cost)
             THEN /\ last' = Response("buy-health", 400, args, NoResp)
                  /\ UNCHANGED <<record, today, saves>>
             ELSE /\ saves' = saves + 1
                  /\ gold' = IF cost # 0 THEN q.doc.gold - cost ELSE gold
                  /\ stats' = IF q.amount # 0
                                THEN [stats EXCEPT !.health =
                                        q.doc.stats.health + q.amount]
                                ELSE stats
                  /\ last' = Response("buy-health", 200, args, NoResp)
                  /\ UNCHANGED <<exists, xp, level, waterIntake, workouts,
                                 activeQuests, battles, today>>

\* The environment's clock: a new calendar day begins.
NextDay ==
  /\ today < MaxDay
  /\ today' = today + 1
  /\ UNCHANGED <<record, last, saves, inflight>>

\* Every handler, in any order, up to MaxSaves stored mutations.
Next ==
  /\ \/ Register
     \/ \E cups \in CupsInputs : LogWater(cups)
     \/ \E in \in WorkoutInputs : LogWorkout(in)
     \/ GetQuests
     \/ \E randomIndex \in 1..Len(ENEMIES) : BattleStart(randomIndex)
     \/ \E in \in AttackInputs : BattleAttack(in)
     \/ \E amount \in BuyAmounts : BuyHealth(amount)
     \/ BattleFlee
     \/ NextDay
  /\ saves' <= MaxSaves

Spec == Init /\ [][Next]_vars

\* The battle engine alone, followed deeper: battles fought to the end.
NextBattle ==
  /\ \/ Register
     \/ \E randomIndex \in 1..Len(ENEMIES) : BattleStart(randomIndex)
     \/ \E in \in AttackInputs : BattleAttack(in)
     \/ BattleFlee
  /\ saves' <= MaxBattleSaves

SpecBattle == Init /\ [][NextBattle]_vars

\* The battle engine followed one stored mutation further: long enough for
\* attacks of two battles to bring health below the flee penalty.
NextFlee ==
  /\ \/ Register
     \/ \E randomIndex \in 1..Len(ENEMIES) : BattleStart(randomIndex)
     \/ \E in \in AttackInputs : BattleAttack(in)
     \/ BattleFlee
  /\ saves' <= MaxFleeSaves

SpecFlee == Init /\ [][NextFlee]_vars

\* The two reading handlers, which store nothing, with the handlers that
\* write what they read.
NextRead ==
  /\ \/ Register
     \/ \E cups \in CupsInputs \cup SipInputs : LogWater(cups)
     \/ \E in \in WorkoutInputs : LogWorkout(in)
     \/ GetQuests
     \/ TodayWater
     \/ QuestsProgress
     \/ NextDay
  /\ saves' <= MaxSaves

SpecRead == Init /\ [][NextRead]_vars

\* Purchases of one player sent concurrently: up to MaxRequests requests
\* between their findOne and their save at a time.
NextRace ==
  /\ \/ Register
     \/ \E r \in 1..MaxRequests, amount \in ShopAmounts :
          BuyHealthLoad(r, amount)
     \/ \E r \in 1..MaxRequests : BuyHealthSave(r)
  /\ saves' <= MaxShopSaves

SpecRace == Init /\ [][NextRace]_vars

\* Battles fought with the weakest attack only, long enough for the
\* weakest enemy to fall to it.
NextSiege ==
  /\ \/ Register
     \/ \E randomIndex \in 1..Len(ENEMIES) : BattleStart(randomIndex)
     \/ \E in \in FeebleInputs : BattleAttack(in)
     \/ BattleFlee
  /\ saves' <= MaxSiegeSaves

SpecSiege == Init /\ [][NextSiege]_vars

\* Workout logging alone, over the wider set of workouts.
NextWorkout ==
  /\ \/ Register
     \/ \E in \in AwardInputs : LogWorkout(in)
  /\ saves' <= MaxSaves

SpecWorkout == Init /\ [][NextWorkout]_vars

\* The shop, and the battles that earn gold: the registration gold and a
\* reward spent down to nothing.
NextShop ==
  /\ \/ Register
     \/ \E amount \in ShopAmounts : BuyHealth(amount)
     \/ \E randomIndex \in 1..Len(ENEMIES) : BattleStart(randomIndex)
     \/ \E in \in AttackInputs : BattleAttack(in)
  /\ saves' <= MaxShopSaves

SpecShop == Init /\ [][NextShop]_vars

(* ------------------------------ properties ----------------------------- *)
\* The last request was a /battle/attack that acted on a battle.
Attacked == last.op = "attack" /\ last.status = 200

\* The battle the last attack acted on, after and before the attack.
Hit == battles[last.resp.idx]
HitBefore == last.pre.battles[last.resp.idx]

\* The last request was a /battle/start that created a battle.
Started == last.op = "start" /\ last.status = 200

\* The Catalog entry of the enemy with the given name.
CatalogEnemy(enemyName) ==
  ENEMIES[CHOOSE i \in DOMAIN ENEMIES : ENEMIES[i].name = enemyName]

Max0(x) == IF x > 0 THEN x ELSE 0

\* The counter-damage of the last attack: the battle's enemyDamage, 10 if unset.
Taken ==
  IF HitBefore.enemyDamage = 0 THEN 10 ELSE HitBefore.enemyDamage

Defeated(b) == b.completed /\ ~b.victory /\ ~b.fled

\* C1: in every reachable state of a Player Record,
\* level = floor(xp / 100) + 1.
C1_LevelMatchesXp == exists => level = (xp \div 100) + 1

\* C2: at most one battle with completed = false exists in every reachable
\* state, and a /battle/start issued while an incomplete battle exists is
\* rejected and appends nothing.
C2_SingleActiveBattle ==
  /\ Cardinality({i \in DOMAIN battles : ~battles[i].completed}) <= 1
  /\ (last.op = "start"
        /\ \E i \in DOMAIN last.pre.battles : ~last.pre.battles[i].completed)
     => (last.status # 200 /\ battles = last.pre.battles)

\* Battle i becomes victorious in this step.
Flips(i) == ~battles[i].victory /\ battles'[i].victory

C3_Step ==
  /\ \A i \in DOMAIN battles :
       /\ i \in DOMAIN battles'
       /\ battles[i].victory => battles'[i].victory
       /\ Flips(i) =>
            /\ last'.op = "attack" /\ last'.resp.idx = i
            /\ battles'[i].completed
            /\ battles'[i].enemyHP = 0
            /\ xp' = xp + CatalogEnemy(battles[i].enemyName).reward.xp
            /\ gold' = gold + CatalogEnemy(battles[i].enemyName).reward.gold
  /\ Cardinality({i \in DOMAIN battles : Flips(i)}) <= 1
  /\ (exists /\ gold' > gold) => \E i \in DOMAIN battles : Flips(i)
  /\ (saves' # saves /\ last'.op = "attack" /\ last'.status = 200)
       => LET i == last'.resp.idx
          IN  battles[i].enemyHP <= last'.resp.damageDealt => Flips(i)

\* C3: the attack that brings enemyHP to 0 (exactly 0 included) marks the
\* battle completed and victorious and adds the Catalog reward of the enemy
\* named in the battle to xp and gold; a battle becomes victorious at most
\* once, stays victorious, and gold is never granted in a step in which no
\* battle becomes victorious, so no battle is rewarded twice.
C3_RewardOnce == [][C3_Step]_vars

\* An attack brought enemyHP to exactly 0 and the reward was granted.
C3_Witness ==
  /\ Attacked
  /\ HitBefore.enemyHP = last.resp.damageDealt
  /\ Hit.victory /\ Hit.completed
  /\ gold = last.pre.gold + CatalogEnemy(Hit.enemyName).reward.gold
  /\ xp = last.pre.xp + CatalogEnemy(Hit.enemyName).reward.xp

C5_NewBattleShape ==
  Started =>
    LET b == battles[Len(battles)]
    IN  /\ Len(battles) = Len(last.pre.battles) + 1
        /\ SubSeq(battles, 1, Len(battles) - 1) = last.pre.battles
        /\ ~b.completed /\ ~b.victory /\ ~b.fled
        /\ \E i \in DOMAIN ENEMIES :
             /\ b.enemyName = ENEMIES[i].name
             /\ b.enemyHP = ENEMIES[i].hp
             /\ b.enemyMaxHP = ENEMIES[i].hp
             /\ b.enemyDamage = ENEMIES[i].damage
        /\ b.userHP = last.pre.stats.health
        /\ b.userMaxHP = last.pre.stats.health
        /\ stats = last.pre.stats
        /\ xp = last.pre.xp
        /\ level = last.pre.level
        /\ gold = last.pre.gold

\* A battle was started by a player who had already lost health.
C5_Witness ==
  /\ Started
  /\ last.pre.stats.health < 100
  /\ battles[Len(battles)].userMaxHP = last.pre.stats.health

\* C6: for every attack on an active battle, damageDealt =
\* floor(reps * (weight, or 1 when weight is 0 or absent) / 10) + strength,
\* and the battle's enemyHP afterwards is max(0, previous enemyHP -
\* damageDealt); reps = 10, weight = 2, strength = 5 gives 7.
C6_DamageDealt ==
  /\ Attacked =>
       LET w == last.args.weight
           factor == IF w = {} \/ w = {0} THEN 1 ELSE CHOOSE x \in w : TRUE
           dealt == ((last.args.reps * factor) \div 10)
                      + last.pre.stats.strength
       IN  /\ last.resp.damageDealt = dealt
           /\ Hit.enemyHP = Max0(HitBefore.enemyHP - dealt)
  /\ BaseDamage(10, {2}, 5) = 7

\* An attack sent with weight 0 by a player whose strength has grown.
C6_Witness ==
  /\ Attacked
  /\ last.args.weight = {0}
  /\ last.pre.stats.strength > 5
  /\ last.resp.damageDealt = 2 + last.pre.stats.strength
  /\ Hit.enemyHP = HitBefore.enemyHP - last.resp.damageDealt

\* C7: after every attack battle.userHP is the player's health less the
\* counter-damage, clamped to 0: it is never negative, also when the
\* counter-damage exceeds the remaining health.
C7_UserHPMirrorsClampedHealth ==
  Attacked =>
    /\ Hit.userHP = Max0(last.pre.stats.health - Taken)
    /\ Hit.userHP >= 0

\* C8: attack resolution checks the enemy first: enemyHP = 0 ends the battle
\* Victorious with the reward granted, also when the player's health reached
\* 0 in the same attack; Defeated is reached only with enemyHP > 0 and
\* userHP <= 0; otherwise the battle stays Active and keeps both HP values.
C8_EnemyCheckedFirst ==
  Attacked =>
    /\ Hit.enemyHP = 0 =>
         /\ Hit.completed /\ Hit.victory
         /\ gold = last.pre.gold + CatalogEnemy(Hit.enemyName).reward.gold
         /\ xp = last.pre.xp + CatalogEnemy(Hit.enemyName).reward.xp
    /\ (Hit.enemyHP > 0 /\ Hit.userHP <= 0) => Defeated(Hit)
    /\ Defeated(Hit) => (Hit.enemyHP > 0 /\ Hit.userHP <= 0)
    /\ (Hit.enemyHP > 0 /\ Hit.userHP > 0) =>
         /\ ~Hit.completed /\ ~Hit.victory
         /\ Hit.enemyHP = HitBefore.enemyHP - last.resp.damageDealt
         /\ Hit.userHP = last.pre.stats.health - Taken
         /\ ActiveBattle(battles) = last.resp.idx

\* One attack killed the enemy and took the player's last health.
C8_Witness ==
  /\ Attacked
  /\ HitBefore.enemyHP > 0
  /\ Hit.enemyHP = 0
  /\ last.pre.stats.health - Taken <= 0
  /\ Hit.victory

\* C9: an attack that ends in Defeated leaves xp, gold and level unchanged
\* and the player's health at exactly 0, and a /battle/start issued at
\* health 0 is rejected.
C9_DefeatNoReward ==
  /\ (Attacked /\ Defeated(Hit)) =>
       /\ xp = last.pre.xp
       /\ gold = last.pre.gold
       /\ level = last.pre.level
       /\ stats.health = 0
  /\ (last.op = "start" /\ last.pre.exists /\ last.pre.stats.health = 0) =>
       (last.status = 400 /\ battles = last.pre.battles)

\* A start was rejected right after a defeat had left health at 0.
C9_Witness ==
  /\ last.op = "start" /\ last.status = 400
  /\ stats.health = 0
  /\ \E i \in DOMAIN battles : Defeated(battles[i]) /\ battles[i].userHP <= 0

\* C10: on a victorious attack the level-up check is made on the total xp
\* after the reward: when floor(xp / 100) + 1 exceeds the stored level, level
\* is set to it and the player gains +2 strength, +2 stamina, +1 agility and
\* +20 health once, however many levels were jumped; otherwise no stat
\* changes (health only loses the counter-damage).
C10_VictoryLevelUp ==
  (Attacked /\ Hit.victory) =>
    LET total == last.pre.xp + CatalogEnemy(Hit.enemyName).reward.xp
        target == (total \div 100) + 1
        health == Max0(last.pre.stats.health - Taken)
    IN  /\ xp = total
        /\ IF target > last.pre.level
             THEN /\ level = target
                  /\ stats = [strength |-> last.pre.stats.strength + 2,
                              stamina |-> last.pre.stats.stamina + 2,
                              agility |-> last.pre.stats.agility + 1,
                              health |-> health + 20]
             ELSE /\ level = last.pre.level
                  /\ stats = [last.pre.stats EXCEPT !.health = health]

\* A victory raised the level by more than one and the stats grew once.
C10_Witness ==
  /\ Attacked /\ Hit.victory
  /\ level >= last.pre.level + 2
  /\ stats.strength = last.pre.stats.strength + 2

\* The indexes of the battles that were not completed when the last request
\* loaded the record.
OpenBefore == {i \in DOMAIN last.pre.battles : ~last.pre.battles[i].completed}

\* C11: /battle/attack of an existing player acts on the most recently
\* created battle that is not completed and leaves every other battle as it
\* was; with no incomplete battle (none at all, or all completed) it answers
\* with an error and changes nothing.
C11_AttackTarget ==
  (last.op = "attack" /\ last.pre.exists) =>
    IF OpenBefore = {}
      THEN last.status = 400 /\ Player = last.pre
      ELSE /\ last.status = 200
           /\ last.resp.idx \in OpenBefore
           /\ \A j \in OpenBefore : j <= last.resp.idx
           /\ Len(battles) = Len(last.pre.battles)
           /\ \A j \in DOMAIN battles :
                j # last.resp.idx => battles[j] = last.pre.battles[j]
           /\ Hit # HitBefore

\* An attack was rejected because the player's only battle was completed.
C11_Witness ==
  /\ last.op = "attack" /\ last.status = 400
  /\ Len(battles) >= 1
  /\ \A i \in DOMAIN battles : battles[i].completed

\* The most recently created battle that was not completed when the last
\* request loaded the record (OpenBefore is not empty).
MostRecentOpen == CHOOSE i \in OpenBefore : \A j \in OpenBefore : j <= i

\* C12: attack and flee agree on the active battle: whenever the player has
\* an incomplete battle, /battle/attack and /battle/flee both succeed and
\* both act on the most recently created incomplete battle.
C12_AttackFleeAgree ==
  (last.op \in {"attack", "flee"} /\ last.pre.exists /\ OpenBefore # {}) =>
    /\ last.status = 200
    /\ last.resp.idx = MostRecentOpen
    /\ battles[MostRecentOpen] # last.pre.battles[MostRecentOpen]

\* What the last request, a /battle/flee of an existing player, must have
\* done to the record it loaded.
C13_FleeEffect ==
  (last.op = "flee" /\ last.pre.exists) =>
    LET n == Len(last.pre.battles)
    IN  IF n > 0 /\ ~last.pre.battles[n].completed
          THEN /\ last.status = 200
               /\ Len(battles) = n
               /\ battles[n].completed /\ battles[n].fled
               /\ ~battles[n].victory
               /\ battles[n].enemyHP = last.pre.battles[n].enemyHP
               /\ battles[n].userHP = last.pre.battles[n].userHP
               /\ \A j \in 1..(n - 1) : battles[j] = last.pre.battles[j]
               /\ stats = [last.pre.stats EXCEPT !.health = @ - 5]
               /\ xp = last.pre.xp
               /\ gold = last.pre.gold
               /\ level = last.pre.level
          ELSE /\ last.status = 400
               /\ Player = last.pre

\* A flee that directly follows a successful flee changes nothing (every
\* request writes `last`, so a step that changes it to a flee is a flee).
C13_Step ==
  /\ C13_FleeEffect'
  /\ (last.op = "flee" /\ last.status = 200
        /\ last'.op = "flee" /\ last' # last) =>
       (last'.status = 400 /\ stats' = stats /\ battles' = battles)

\* C13: /battle/flee with an Active most recent battle marks it Fled
\* (completed, fled, not victorious) and takes exactly 5 health; with a
\* terminal most recent battle, or none, it fails and changes nothing, so
\* the second of two consecutive flees takes no health.
C13_FleeOnce == [][C13_Step]_vars

\* A second flee was rejected: the only battle is fled and 5 health was
\* taken once.
C13_Witness ==
  /\ last.op = "flee" /\ last.status = 400
  /\ Len(battles) = 1
  /\ battles[1].fled /\ battles[1].completed /\ ~battles[1].victory
  /\ stats.health = 95

\* C14: stats.health is never negative, whatever sequence of start, attack,
\* flee, buy-health, log-water and log-workout requests was served, also
\* after fleeing a battle in which attacks had brought health below 5.
C14_HealthNonNegative == stats.health >= 0

C15_Step ==
  /\ \A i \in DOMAIN battles :
       /\ i \in DOMAIN battles'
       /\ battles[i].completed => battles'[i] = battles[i]
       /\ battles'[i] # battles[i] =>
            /\ last'.op \in {"attack", "flee"}
            /\ last'.status = 200
            /\ last'.resp.idx = i
  /\ Len(battles') # Len(battles) =>
       /\ last'.op = "start" /\ last'.status = 200
       /\ battles' = Append(battles, battles'[Len(battles')])

\* C15: a completed battle is immutable: no later request changes any of its
\* fields; battles are only created by /battle/start, one at a time at the
\* end, and only changed by a successful attack or flee, which changes the
\* one battle it acts on.
C15_CompletedImmutable == [][C15_Step]_vars

\* An attack acted on an older battle while a newer one, already completed,
\* stayed as it was.
C15_Witness ==
  /\ Attacked
  /\ \E j \in DOMAIN battles :
       /\ j > last.resp.idx
       /\ last.pre.battles[j].completed
       /\ battles[j] = last.pre.battles[j]

\* The last request was a /shop/buy-health of an existing player.
Bought == last.op = "buy-health" /\ last.pre.exists

\* C16: /shop/buy-health with amount >= 0 costs amount * 10 gold; with less
\* gold than that it fails and leaves gold and health (the whole record) as
\* they were; otherwise gold goes down by exactly the cost and health up by
\* exactly amount and nothing else changes.  With amount 5 it fails at 40
\* gold and at 50 gold leaves 0 gold and 5 more health.
C16_BuyHealth ==
  Bought =>
    LET amount == last.args.amount
    IN  /\ IF last.pre.gold < amount * 10
             THEN last.status = 400 /\ Player = last.pre
             ELSE /\ last.status = 200
                  /\ Player = [last.pre EXCEPT
                                 !.gold = @ - amount * 10,
                                 !.stats.health = @ + amount]
        /\ (amount = 5 /\ last.pre.gold = 40) =>
             (last.status = 400 /\ gold = 40
                /\ stats.health = last.pre.stats.health)
        /\ (amount = 5 /\ last.pre.gold = 50) =>
             (last.status = 200 /\ gold = 0
                /\ stats.health = last.pre.stats.health + 5)

\* A five-point potion was refused at 40 gold, after a five-point and a
\* one-point potion had been bought from the 100 gold of registration.
C16_Witness ==
  /\ Bought /\ last.status = 400
  /\ last.args.amount = 5
  /\ gold = 40
  /\ stats.health = 106

\* C17: gold is never negative: from the 100 gold of registration, no
\* sequence of purchases and battle rewards brings it below 0.
C17_GoldNonNegative == gold >= 0

\* A purchase was refused with no gold left, after a battle reward and the
\* registration gold had been spent.
C17_Witness ==
  /\ Bought /\ last.status = 400
  /\ gold = 0
  /\ \E i \in DOMAIN battles : battles[i].victory

C18_Step ==
  /\ xp' >= xp
  /\ level' >= level
  /\ xp' >= 0

\* C18: xp is never negative and no step lowers it: every request
\* (log-water, log-workout, attack, start, flee, buy-health) with
\* non-negative values leaves xp equal or greater; level is never lowered
\* either.
C18_XpLevelMonotonic == [][C18_Step]_vars

\* Water, a workout and a victory have each added xp, and the level rose.
C18_Witness ==
  /\ Len(waterIntake) > 0
  /\ Len(workouts) > 0
  /\ \E i \in DOMAIN battles : battles[i].victory
  /\ Attacked /\ xp > last.pre.xp /\ last.pre.xp >= 65
  /\ level > last.pre.level

\* The last request was a /log-workout that was stored.
Logged == last.op = "log-workout" /\ last.status = 200

\* The workout name of the last request, lower-cased, contains `sub`.
NameHas(sub) == Includes(ToLowerCase(last.args.name), sub)

\* C19: the xp awarded for a workout is floor(reps * weight * sets / 10) + 10
\* plus the sum of the bonuses that apply: 5 when the name contains 'squat',
\* 8 when it contains 'push', 3 when it contains 'plank', so a name with
\* several of them earns several bonuses; ('squat', 10, 5, 1) earns 20.
C19_BonusSum ==
  /\ Logged =>
       LET w == CHOOSE x \in last.args.weight : TRUE
           sets == IF last.args.sets = {} THEN 1
                   ELSE CHOOSE x \in last.args.sets : TRUE
       IN  last.resp.xpEarned =
             ((last.args.reps * w * sets) \div 10) + 10
               + (IF NameHas(Squat) THEN 5 ELSE 0)
               + (IF NameHas(Push) THEN 8 ELSE 0)
               + (IF NameHas(Plank) THEN 3 ELSE 0)
  /\ calculateWorkoutXP(Squat, 10, 5, 1) = 20

\* C20: /log-workout adds the awarded xp; when floor(xp / 100) + 1 then
\* exceeds the stored level, level is set to it and one growth step chosen
\* by the name is applied: +2 strength for 'squat' or 'push', else +2 stamina
\* for 'plank' or 'crunch', else +2 agility, once however many levels were
\* jumped; when the level does not rise no stat changes.
C20_WorkoutLevelUp ==
  Logged =>
    LET total == last.pre.xp + last.resp.xpEarned
        target == (total \div 100) + 1
        grown ==
          IF NameHas(Squat) \/ NameHas(Push)
            THEN [last.pre.stats EXCEPT !.strength = @ + 2]
            ELSE IF NameHas(Plank) \/ NameHas(Crunch)
              THEN [last.pre.stats EXCEPT !.stamina = @ + 2]
              ELSE [last.pre.stats EXCEPT !.agility = @ + 2]
    IN  /\ xp = total
        /\ workouts[Len(workouts)].xp = last.resp.xpEarned
        /\ IF target > last.pre.level
             THEN level = target /\ stats = grown /\ last.resp.leveledUp
             ELSE /\ level = last.pre.level
                  /\ stats = last.pre.stats
                  /\ ~last.resp.leveledUp

\* One workout named after a plank and a squat raised the level by two and
\* strength, only, by 2.
C20_Witness ==
  /\ Logged
  /\ NameHas(Plank) /\ NameHas(Squat)
  /\ level >= last.pre.level + 2
  /\ stats = [last.pre.stats EXCEPT !.strength = @ + 2]

\* The last request was stored and is one of the three that grant xp.
Granted ==
  /\ last.status = 200
  /\ last.op \in {"log-water", "log-workout", "attack"}
  /\ xp > last.pre.xp

\* xp moved across a multiple of 100 in the last request.
Crossed == (xp \div 100) > (last.pre.xp \div 100)

\* C21: level-up effects are applied once per crossing of a level
\* threshold: a request that grants xp across a multiple of 100 (log-water,
\* log-workout or a victorious attack) recomputes the level and applies the
\* growth itself, and no request raises the level or applies growth for a
\* threshold that was crossed earlier.
C21_LevelUpAtCrossing ==
  Granted =>
    /\ Crossed =>
         /\ level = (xp \div 100) + 1
         /\ level > last.pre.level
         /\ stats.strength + stats.stamina + stats.agility >
              last.pre.stats.strength + last.pre.stats.stamina
                + last.pre.stats.agility
    /\ ~Crossed =>
         /\ level = last.pre.level
         /\ stats.strength = last.pre.stats.strength
         /\ stats.stamina = last.pre.stats.stamina
         /\ stats.agility = last.pre.stats.agility

\* The last request was a GET /quests of an existing player.
Fetched == last.op = "quests" /\ last.pre.exists

\* C22: GET /quests seeds activeQuests with one copy of every Catalog quest
\* (3 entries, in Catalog order, none completed) only when activeQuests is
\* empty; with a non-empty activeQuests it leaves the record as it is, so
\* fetching again never reseeds or duplicates.
C22_QuestsSeededOnce ==
  /\ Len(activeQuests) \in {0, 3}
  /\ Fetched =>
       /\ last.status = 200
       /\ Len(activeQuests) = 3
       /\ \A i \in 1..3 :
            /\ activeQuests[i].title = QUESTS[i].title
            /\ activeQuests[i].type = QUESTS[i].type
            /\ activeQuests[i].requirement = QUESTS[i].requirement
            /\ activeQuests[i].reward = QUESTS[i].reward
            /\ ~activeQuests[i].completed
       /\ last.pre.activeQuests # <<>> => Player = last.pre
       /\ Player = [last.pre EXCEPT !.activeQuests = activeQuests]

\* Quests were fetched again by a player who already had them.
C22_Witness ==
  /\ Fetched
  /\ Len(last.pre.activeQuests) = 3
  /\ activeQuests = last.pre.activeQuests

\* The last request was a GET /quests/progress that was answered.
Progressed == last.op = "progress" /\ last.status = 200

\* The cups logged on the given day: those of its entries, 0 without one.
CupsOn(day) ==
  LET hits == {i \in DOMAIN waterIntake : waterIntake[i].date = day}
      RECURSIVE Sum(_)
      Sum(S) == IF S = {} THEN 0
                ELSE LET i == CHOOSE x \in S : TRUE
                     IN  waterIntake[i].cups + Sum(S \ {i})
  IN  Sum(hits)

\* The stored reps of every logged workout named after a squat.
SquatTotal ==
  LET hits == {i \in DOMAIN workouts :
                 Includes(ToLowerCase(workouts[i].name), Squat)}
      RECURSIVE Sum(_)
      Sum(S) == IF S = {} THEN 0
                ELSE LET i == CHOOSE x \in S : TRUE
                     IN  workouts[i].reps + Sum(S \ {i})
  IN  Sum(hits)

\* C23: /quests/progress answers, for each active quest, progress =
\* min(completed / requirement, 1), a value in [0, 1], where completed is the
\* sum of the stored reps of all logged workouts named after a squat for a
\* workout quest, the cups logged on the day of the request (0 without an
\* entry) for a hydration quest, and 0 for a boss quest; it leaves the
\* Player Record as it was.
C23_Progress ==
  (Progressed /\ last.resp.day = today) =>
    /\ Player = last.pre
    /\ Len(last.resp.progress) = Len(activeQuests)
    /\ \A i \in DOMAIN activeQuests :
         LET q == activeQuests[i]
             r == last.resp.progress[i]
             done == CASE q.type = "workout" -> SquatTotal
                       [] q.type = "hydration" -> CupsOn(today)
                       [] OTHER -> 0
         IN  /\ r.completed = done
             /\ r.progress.den > 0
             /\ 0 <= r.progress.num /\ r.progress.num <= r.progress.den
             /\ IF done < q.requirement
                  THEN r.progress.num * q.requirement = done * r.progress.den
                  ELSE r.progress.num = r.progress.den

\* Progress was read with one quest part done (squats 10 of 15, cups 3 of
\* 4) and another capped at 1.
C23_Witness ==
  /\ Progressed /\ last.resp.day = today
  /\ Len(last.resp.progress) = 3
  /\ last.resp.progress[1].progress = [num |-> 1, den |-> 1]
  /\ last.resp.progress[2].progress = [num |-> 3, den |-> 4]
  /\ last.resp.progress[3].progress = [num |-> 10, den |-> 15]

\* The last request ended in an error.
Failed == last.op # "none" /\ last.status # 200

\* C24: a request that ends in an error (start at health <= 10, attack
\* without an active battle, flee of a terminal battle, buy-health without
\* the gold, or any other error answer) leaves the Player Record exactly as
\* the request loaded it: nothing is partially changed or stored.
C24_ErrorsChangeNothing == Failed => Player = last.pre

\* A flee was refused after a defeat had completed the battle and left the
\* player at health 0.
C24_Witness ==
  /\ last.op = "flee" /\ last.status = 400
  /\ Len(battles) >= 1
  /\ Defeated(battles[Len(battles)])
  /\ stats.health = 0

\* C25: requests of one player never interleave: between one request's
\* load of the Player Record and its save no other request of the player
\* loads or saves, so every purchase that succeeds takes effect on the
\* record as stored at its save (no lost update: two concurrent purchases
\* are both paid for and both add their health).
C25_NoInterleaving ==
  /\ Cardinality(inflight) <= 1
  /\ (Bought /\ last.status = 200) =>
       /\ gold = last.pre.gold - last.args.amount * 10
       /\ stats.health = last.pre.stats.health + last.args.amount

\* C26: every core request made for an identity without a Player Record is
\* answered 404 (missing player), not 500 or 400: log-water, log-workout,
\* quests, quests/progress, battle/start, battle/attack, battle/flee and
\* shop/buy-health alike; a failed precondition of an existing player is
\* answered 400.
C26_MissingPlayerIs404 ==
  /\ (last.op \in {"log-water", "log-workout", "quests", "progress", "start",
                   "attack", "flee", "buy-health"}
        /\ ~last.pre.exists)
       => last.status = 404
  /\ (Failed /\ last.pre.exists) => last.status = 400

\* The last request was a /log-water that was stored.
Watered == last.op = "log-water" /\ last.status = 200

\* C27: waterIntake holds at most one entry per calendar day: /log-water
\* adds the cups to the entry of the day when there is one and appends a
\* new entry only when there is none, so /today-water answers the sum of
\* all cups logged on the day.
C27_OneEntryPerDay ==
  /\ \A i, j \in DOMAIN waterIntake :
       waterIntake[i].date = waterIntake[j].date => i = j
  /\ Watered =>
       LET before == last.pre.waterIntake
           hits == {i \in DOMAIN before : before[i].date = last.resp.day}
       IN  IF hits = {}
             THEN waterIntake =
                    Append(before, [date |-> last.resp.day,
                                    cups |-> last.args.cups])
             ELSE /\ Len(waterIntake) = Len(before)
                  /\ \A i \in DOMAIN before :
                       /\ waterIntake[i].date = before[i].date
                       /\ waterIntake[i].cups =
                            before[i].cups
                              + (IF i \in hits THEN last.args.cups ELSE 0)
  /\ (last.op = "today-water" /\ last.status = 200
        /\ last.resp.day = today)
       => last.resp.cups = CupsOn(today)

\* On the second day water was logged twice, 1 and 3 cups, into one entry,
\* and /today-water answered 4.
C27_Witness ==
  /\ last.op = "today-water" /\ last.status = 200
  /\ today = 2 /\ last.resp.day = 2
  /\ Len(waterIntake) = 2
  /\ waterIntake[2] = [date |-> 2, cups |-> 4]
  /\ last.resp.cups = 4

\* C28: workouts and battles are append-only: no request removes or
\* reorders an entry, and no request changes a stored workout; a stored
\* /log-workout appends exactly one workout, whose reps are reps * sets and
\* whose xp is the xp awarded, and a successful /battle/start appends
\* exactly one battle.  (Every request that changes the record writes
\* `last`, so the record it loaded is the record of the state before.)
C28_AppendOnly ==
  LET before == last.pre
      sets == IF last.args.sets = {} THEN 1
              ELSE CHOOSE x \in last.args.sets : TRUE
  IN  /\ Len(workouts) >= Len(before.workouts)
      /\ SubSeq(workouts, 1, Len(before.workouts)) = before.workouts
      /\ Len(battles) >= Len(before.battles)
      /\ \A i \in DOMAIN before.battles :
           /\ battles[i].enemyName = before.battles[i].enemyName
           /\ battles[i].enemyMaxHP = before.battles[i].enemyMaxHP
           /\ battles[i].userMaxHP = before.battles[i].userMaxHP
      /\ IF Logged
           THEN /\ Len(workouts) = Len(before.workouts) + 1
                /\ workouts[Len(workouts)] =
                     [name |-> last.args.name,
                      reps |-> last.args.reps * sets,
                      weight |-> CHOOSE x \in last.args.weight : TRUE,
                      xp |-> last.resp.xpEarned]
                /\ xp = before.xp + last.resp.xpEarned
           ELSE workouts = before.workouts
      /\ IF Started
           THEN Len(battles) = Len(before.battles) + 1
           ELSE Len(battles) = Len(before.battles)

\* A second workout, logged with 3 sets, was appended behind the first.
C28_Witness ==
  /\ Logged
  /\ Len(workouts) = 2
  /\ last.args.sets = {3}
  /\ workouts[2].reps = last.args.reps * 3
  /\ workouts[1] = last.pre.workouts[1]

\* C29: the stored level never exceeds the derived level floor(xp / 100) + 1
\* and is never lowered by a request, and it equals the derived level right
\* after every stored /log-workout and every victorious attack.
C29_LevelBoundedByXp ==
  /\ level <= (xp \div 100) + 1
  /\ level >= last.pre.level
  /\ (Logged \/ (Attacked /\ Hit.victory)) => level = (xp \div 100) + 1

\* A workout brought the level back in line after water had carried xp
\* over a threshold without a level-up.
C29_Witness ==
  /\ Logged
  /\ last.pre.level < (last.pre.xp \div 100) + 1
  /\ level = (xp \div 100) + 1

\* C30: the flags of every battle encode one of the four states Active,
\* Victorious, Defeated, Fled: victory implies completed, fled implies
\* completed, victory and fled are never both set, a victorious battle has
\* enemyHP = 0 and an Active battle has enemyHP > 0.
C30_BattleStates ==
  \A i \in DOMAIN battles :
    LET b == battles[i]
    IN  /\ b.victory => b.completed
        /\ b.fled => b.completed
        /\ ~(b.victory /\ b.fled)
        /\ b.victory => b.enemyHP = 0
        /\ ~b.completed => b.enemyHP > 0
        /\ b.enemyHP >= 0 /\ b.enemyHP <= b.enemyMaxHP

\* The record holds a Fled battle that had been attacked and a Victorious
\* one.
C30_Witness ==
  /\ \E i \in DOMAIN battles :
       /\ battles[i].fled /\ ~battles[i].victory
       /\ battles[i].enemyHP < battles[i].enemyMaxHP
  /\ \E i \in DOMAIN battles :
       battles[i].victory /\ ~battles[i].fled /\ battles[i].enemyHP = 0

\* The attacks a battle can still take at the least damage, 5 a hit:
\* ceil(enemyHP / 5).
Rounds(b) == (b.enemyHP + 4) \div 5

\* C31: every attack on an active battle with reps >= 0 and weight >= 0
\* strictly lowers its enemyHP, by at least the player's strength, which is
\* 5 at registration and never lowered; no request raises an enemyHP.  So
\* the attacks a battle can still take, at most ceil(enemyMaxHP / 5) when it
\* starts, go down by at least one with every attack, and the battle is
\* completed when none are left, whatever other requests come in between.
C31_AttacksTerminate ==
  /\ exists => stats.strength >= 5
  /\ stats.strength >= last.pre.stats.strength
  /\ \A i \in DOMAIN last.pre.battles :
       battles[i].enemyHP <= last.pre.battles[i].enemyHP
  /\ \A i \in DOMAIN battles :
       /\ Rounds(battles[i]) <= (battles[i].enemyMaxHP + 4) \div 5
       /\ ~battles[i].completed => Rounds(battles[i]) >= 1
  /\ Attacked =>
       /\ last.resp.damageDealt >= last.pre.stats.strength
       /\ Hit.enemyHP < HitBefore.enemyHP
       /\ Rounds(Hit) <= Rounds(HitBefore) - 1
       /\ Rounds(Hit) = 0 => Hit.completed

\* The weakest enemy, 50 hp, fell to the tenth attack of 5 damage: the last
\* one ceil(50 / 5) allows.
C31_Witness ==
  /\ Attacked
  /\ last.resp.damageDealt = 5
  /\ Hit.enemyMaxHP = 50
  /\ HitBefore.enemyHP = 5
  /\ Hit.enemyHP = 0 /\ Hit.completed /\ Hit.victory

\* C32: a stored /log-water adds round(2 * cups), 2 * cups for whole cups,
\* to xp and changes only waterIntake and xp: level, stats, gold, workouts,
\* quests and battles stay as they were, also when the xp added crosses a
\* multiple of 100.
C32_LogWaterFrame ==
  Watered =>
    /\ xp = last.pre.xp + 2 * last.args.cups
    /\ waterIntake # last.pre.waterIntake
    /\ Player = [last.pre EXCEPT !.xp = xp, !.waterIntake = waterIntake]

\* Water carried xp across 100 and the level stayed where it was.
C32_Witness ==
  /\ Watered
  /\ last.pre.xp < 100 /\ xp >= 100
  /\ level = 1
  /\ stats = last.pre.stats

====
